---- MODULE Spec2Model ----
(***************************************************************************)
(* A model of package wolfram (go-wolfram.go): the object-or-array decoder *)
(* Assumptions.UnmarshalJSON, the assumption-to-action renderer            *)
(* Assumption.ForActionDisplay, and the five network operations of Client. *)
(*                                                                         *)
(* Text is modelled as it is in Go: a string or a []byte is a sequence of  *)
(* bytes (naturals below 256).  The JSON decoding the package delegates to *)
(* encoding/json and json-iterator is modelled by a recursive-descent      *)
(* parser over those bytes followed by a decode of the parsed value into   *)
(* the package's structs.                                                  *)
(***************************************************************************)
EXTENDS Integers, Sequences, FiniteSets, TLC

(***************************************************************************)
(* Bytes.                                                                  *)
(***************************************************************************)
Lower == <<"a","b","c","d","e","f","g","h","i","j","k","l","m",
           "n","o","p","q","r","s","t","u","v","w","x","y","z">>

Upper == <<"A","B","C","D","E","F","G","H","I","J","K","L","M",
           "N","O","P","Q","R","S","T","U","V","W","X","Y","Z">>

Digits == <<"0","1","2","3","4","5","6","7","8","9">>

\* The byte of a one-character literal (ASCII).
Ord(ch) ==
    IF \E i \in 1..26 : Lower[i] = ch
    THEN 96 + (CHOOSE i \in 1..26 : Lower[i] = ch)
    ELSE IF \E i \in 1..26 : Upper[i] = ch
    THEN 64 + (CHOOSE i \in 1..26 : Upper[i] = ch)
    ELSE IF \E i \in 1..10 : Digits[i] = ch
    THEN 47 + (CHOOSE i \in 1..10 : Digits[i] = ch)
    ELSE CASE ch = "{"  -> 123
           [] ch = "}"  -> 125
           [] ch = "["  -> 91
           [] ch = "]"  -> 93
           [] ch = ","  -> 44
           [] ch = ":"  -> 58
           [] ch = "\"" -> 34
           [] ch = " "  -> 32
           [] ch = "$"  -> 36
           [] ch = "?"  -> 63
           [] ch = "+"  -> 43
           [] ch = "%"  -> 37
           [] ch = "&"  -> 38
           [] ch = "="  -> 61
           [] ch = "/"  -> 47
           [] ch = "-"  -> 45
           [] ch = "."  -> 46

\* The bytes of a literal written as a tuple of one-character strings.
T(t) == [i \in 1..Len(t) |-> Ord(t[i])]

RECURSIVE Flatten(_)
Flatten(ss) == IF ss = <<>> THEN <<>> ELSE Head(ss) \o Flatten(Tail(ss))

RECURSIVE Join(_, _)
Join(ss, sep) ==
    IF ss = <<>> THEN <<>>
    ELSE IF Len(ss) = 1 THEN ss[1]
    ELSE ss[1] \o sep \o Join(Tail(ss), sep)

\* strings.Index(s, sub) counted from position `from`; 0 when absent.
IndexFrom(s, sub, from) ==
    LET hits == {i \in from..(Len(s) - Len(sub) + 1) :
                    \A k \in 1..Len(sub) : s[i + k - 1] = sub[k]}
    IN  IF hits = {} THEN 0 ELSE CHOOSE i \in hits : \A j \in hits : i <= j

Contains(s, sub) == IndexFrom(s, sub, 1) # 0

ToLowerByte(b) == IF b >= 65 /\ b <= 90 THEN b + 32 ELSE b

ToLower(s) == [i \in 1..Len(s) |-> ToLowerByte(s[i])]

(***************************************************************************)
(* JSON text -> JSON value.  A value is [t, str, num, kids, lo, hi]: t is  *)
(* the kind, str the bytes of a string, num a number, kids the elements of *)
(* an array or the <<key, value>> members of an object, and lo..hi the     *)
(* span of the value in the text (what a raw-message capture returns).     *)
(***************************************************************************)
JVal(t, str, num, kids, lo, hi) ==
    [t |-> t, str |-> str, num |-> num, kids |-> kids, lo |-> lo, hi |-> hi]

JNone == JVal("none", <<>>, 0, <<>>, 0, 0)

PFail == [ok |-> FALSE, v |-> JNone, n |-> 0]

POk(v, n) == [ok |-> TRUE, v |-> v, n |-> n]

IsWS(b) == b \in {32, 9, 10, 13}

IsDigit(b) == b >= 48 /\ b <= 57

RECURSIVE SkipWS(_, _)
SkipWS(s, i) == IF i <= Len(s) /\ IsWS(s[i]) THEN SkipWS(s, i + 1) ELSE i

HasAt(s, i, lit) ==
    /\ i + Len(lit) - 1 <= Len(s)
    /\ \A k \in 1..Len(lit) : s[i + k - 1] = lit[k]

RECURSIVE ParseDigits(_, _, _)
ParseDigits(s, i, acc) ==
    IF i <= Len(s) /\ IsDigit(s[i])
    THEN ParseDigits(s, i + 1, 10 * acc + (s[i] - 48))
    ELSE [num |-> acc, n |-> i]

\* A string without escapes: the bytes up to the next double quote.
StringTo(s, i, close) ==
    IF close = 0 \/ \E k \in (i + 1)..(close - 1) : s[k] < 32 \/ s[k] = 92
    THEN PFail
    ELSE POk(JVal("str", SubSeq(s, i + 1, close - 1), 0, <<>>, i, close),
             close + 1)

ParseString(s, i) == StringTo(s, i, IndexFrom(s, <<34>>, i + 1))

NumberTo(i, d) == POk(JVal("num", <<>>, d.num, <<>>, i, d.n - 1), d.n)

RECURSIVE ParseValue(_, _)
RECURSIVE ParseElems(_, _, _, _)
RECURSIVE ParseMembers(_, _, _, _)

\* After the element r of an array opened at lo, at the byte k.
ElemsNext(s, lo, acc, r, k) ==
    IF k > Len(s) THEN PFail
    ELSE IF s[k] = 44
         THEN ParseElems(s, lo, SkipWS(s, k + 1), Append(acc, r.v))
    ELSE IF s[k] = 93
         THEN POk(JVal("arr", <<>>, 0, Append(acc, r.v), lo, k), k + 1)
    ELSE PFail

ElemsAfter(s, lo, acc, r) ==
    IF r.ok THEN ElemsNext(s, lo, acc, r, SkipWS(s, r.n)) ELSE PFail

\* The elements of an array opened at lo, from the element at i.
ParseElems(s, lo, i, acc) == ElemsAfter(s, lo, acc, ParseValue(s, i))

\* After the member key: r of an object opened at lo, at the byte k.
MembersNext(s, lo, acc, key, r, k) ==
    IF k > Len(s) THEN PFail
    ELSE IF s[k] = 44
         THEN ParseMembers(s, lo, SkipWS(s, k + 1),
                           Append(acc, <<key.v.str, r.v>>))
    ELSE IF s[k] = 125
         THEN POk(JVal("obj", <<>>, 0, Append(acc, <<key.v.str, r.v>>), lo, k),
                  k + 1)
    ELSE PFail

MembersAfter(s, lo, acc, key, r) ==
    IF r.ok THEN MembersNext(s, lo, acc, key, r, SkipWS(s, r.n)) ELSE PFail

\* After the key of a member, at the byte c where its colon must be.
MemberColon(s, lo, acc, key, c) ==
    IF c > Len(s) \/ s[c] # 58 THEN PFail
    ELSE MembersAfter(s, lo, acc, key, ParseValue(s, SkipWS(s, c + 1)))

MemberKey(s, lo, acc, key) ==
    IF key.ok THEN MemberColon(s, lo, acc, key, SkipWS(s, key.n)) ELSE PFail

\* The members of an object opened at lo, from the key at i.
ParseMembers(s, lo, i, acc) ==
    IF i > Len(s) \/ s[i] # 34 THEN PFail
    ELSE MemberKey(s, lo, acc, ParseString(s, i))

ObjectFrom(s, i, j) ==
    IF j <= Len(s) /\ s[j] = 125
    THEN POk(JVal("obj", <<>>, 0, <<>>, i, j), j + 1)
    ELSE ParseMembers(s, i, j, <<>>)

ArrayFrom(s, i, j) ==
    IF j <= Len(s) /\ s[j] = 93
    THEN POk(JVal("arr", <<>>, 0, <<>>, i, j), j + 1)
    ELSE ParseElems(s, i, j, <<>>)

tNull == T(<<"n","u","l","l">>)
tTrue == T(<<"t","r","u","e">>)
tFalse == T(<<"f","a","l","s","e">>)

\* The value that starts at byte i (white space already skipped).
ParseValue(s, i) ==
    IF i > Len(s) THEN PFail
    ELSE IF s[i] = 34 THEN ParseString(s, i)
    ELSE IF s[i] = 123 THEN ObjectFrom(s, i, SkipWS(s, i + 1))
    ELSE IF s[i] = 91 THEN ArrayFrom(s, i, SkipWS(s, i + 1))
    ELSE IF HasAt(s, i, tNull)
         THEN POk(JVal("null", <<>>, 0, <<>>, i, i + 3), i + 4)
    ELSE IF HasAt(s, i, tTrue)
         THEN POk(JVal("true", <<>>, 0, <<>>, i, i + 3), i + 4)
    ELSE IF HasAt(s, i, tFalse)
         THEN POk(JVal("false", <<>>, 0, <<>>, i, i + 4), i + 5)
    ELSE IF IsDigit(s[i]) THEN NumberTo(i, ParseDigits(s, i, 0))
    ELSE PFail

\* A whole document: one value, white space around it, nothing after it.
DocumentEnd(s, r) ==
    IF r.ok /\ SkipWS(s, r.n) = Len(s) + 1 THEN r ELSE PFail

ParseDocument(s) == DocumentEnd(s, ParseValue(s, SkipWS(s, 1)))

(***************************************************************************)
(* Errors.  An error is [tag, arg, cause]: the fixed text of its message,  *)
(* the bytes formatted into it, and the tag of the error it wraps.         *)
(***************************************************************************)
Err(tag, arg, cause) == [tag |-> tag, arg |-> arg, cause |-> cause]

Nil == Err("nil", <<>>, "")

\* errors.WithMessage(err, msg)
WithMessage(err, msg) == Err(msg, err.arg, err.tag)

\* string(b) for a byte b: Go converts an integer to the UTF-8 encoding of
\* the code point with that value.
RuneString(b) ==
    IF b < 128 THEN <<b>> ELSE <<192 + (b \div 64), 128 + (b % 64)>>

(***************************************************************************)
(* JSON value -> struct.  A decode returns [ok, x]: x is the target after  *)
(* the decode.  Keys match field tags without regard to case, unknown keys *)
(* are skipped, a later duplicate overwrites, null leaves a field alone.   *)
(***************************************************************************)
DOk(x) == [ok |-> TRUE, x |-> x]

DFail(x) == [ok |-> FALSE, x |-> x]

DecString(v, old) ==
    IF v.t = "str" THEN DOk(v.str)
    ELSE IF v.t = "null" THEN DOk(old) ELSE DFail(old)

DecInt(v, old) ==
    IF v.t = "num" THEN DOk(v.num)
    ELSE IF v.t = "null" THEN DOk(old) ELSE DFail(old)

DecBool(v, old) ==
    IF v.t \in {"true", "false"} THEN DOk(v.t = "true")
    ELSE IF v.t = "null" THEN DOk(old) ELSE DFail(old)

kName == T(<<"n","a","m","e">>)
kDesc == T(<<"d","e","s","c">>)
kInput == T(<<"i","n","p","u","t">>)
kValues == T(<<"v","a","l","u","e","s">>)
kType == T(<<"t","y","p","e">>)
kWord == T(<<"w","o","r","d">>)
kTemplate == T(<<"t","e","m","p","l","a","t","e">>)
kCount == T(<<"c","o","u","n","t">>)

\* The target with one field set from the decode d of that field.
SetName(rec, d) == [ok |-> d.ok, x |-> [rec EXCEPT !.Name = d.x]]
SetDescription(rec, d) == [ok |-> d.ok, x |-> [rec EXCEPT !.Description = d.x]]
SetInput(rec, d) == [ok |-> d.ok, x |-> [rec EXCEPT !.Input = d.x]]
SetValues(rec, d) == [ok |-> d.ok, x |-> [rec EXCEPT !.Values = d.x]]
SetType(rec, d) == [ok |-> d.ok, x |-> [rec EXCEPT !.Type = d.x]]
SetWord(rec, d) == [ok |-> d.ok, x |-> [rec EXCEPT !.Word = d.x]]
SetTemplate(rec, d) == [ok |-> d.ok, x |-> [rec EXCEPT !.Template = d.x]]
SetCount(rec, d) == [ok |-> d.ok, x |-> [rec EXCEPT !.Count = d.x]]

\* type Value
ZeroValue == [Name |-> <<>>, Description |-> <<>>, Input |-> <<>>]

ValueField(k, v, rec) ==
    IF k = kName THEN SetName(rec, DecString(v, rec.Name))
    ELSE IF k = kDesc THEN SetDescription(rec, DecString(v, rec.Description))
    ELSE IF k = kInput THEN SetInput(rec, DecString(v, rec.Input))
    ELSE DOk(rec)

RECURSIVE DecValueFields(_, _, _)
ValueFieldsNext(ms, i, d) ==
    IF d.ok THEN DecValueFields(ms, i + 1, d.x) ELSE d

DecValueFields(ms, i, rec) ==
    IF i > Len(ms) THEN DOk(rec)
    ELSE ValueFieldsNext(ms, i, ValueField(ToLower(ms[i][1]), ms[i][2], rec))

DecValue(v, old) ==
    IF v.t = "obj" THEN DecValueFields(v.kids, 1, old)
    ELSE IF v.t = "null" THEN DOk(old) ELSE DFail(old)

RECURSIVE DecValueElems(_, _, _)
ValueElemsNext(items, i, acc, d) ==
    IF d.ok THEN DecValueElems(items, i + 1, Append(acc, d.x))
    ELSE DFail(Append(acc, d.x))

DecValueElems(items, i, acc) ==
    IF i > Len(items) THEN DOk(acc)
    ELSE ValueElemsNext(items, i, acc, DecValue(items[i], ZeroValue))

\* []Value
DecValueSlice(v, old) ==
    IF v.t = "arr" THEN DecValueElems(v.kids, 1, <<>>)
    ELSE IF v.t = "null" THEN DOk(<<>>) ELSE DFail(old)

\* type Assumption
ZeroAssumption ==
    [Values |-> <<>>, Type |-> <<>>, Word |-> <<>>, Template |-> <<>>,
     Count |-> 0]

AssumptionField(k, v, rec) ==
    IF k = kValues THEN SetValues(rec, DecValueSlice(v, rec.Values))
    ELSE IF k = kType THEN SetType(rec, DecString(v, rec.Type))
    ELSE IF k = kWord THEN SetWord(rec, DecString(v, rec.Word))
    ELSE IF k = kTemplate THEN SetTemplate(rec, DecString(v, rec.Template))
    ELSE IF k = kCount THEN SetCount(rec, DecInt(v, rec.Count))
    ELSE DOk(rec)

RECURSIVE DecAssumptionFields(_, _, _)
AssumptionFieldsNext(ms, i, d) ==
    IF d.ok THEN DecAssumptionFields(ms, i + 1, d.x) ELSE d

DecAssumptionFields(ms, i, rec) ==
    IF i > Len(ms) THEN DOk(rec)
    ELSE AssumptionFieldsNext(ms, i,
             AssumptionField(ToLower(ms[i][1]), ms[i][2], rec))

DecAssumption(v, old) ==
    IF v.t = "obj" THEN DecAssumptionFields(v.kids, 1, old)
    ELSE IF v.t = "null" THEN DOk(old) ELSE DFail(old)

RECURSIVE DecAssumptionElems(_, _, _)
AssumptionElemsNext(items, i, acc, d) ==
    IF d.ok THEN DecAssumptionElems(items, i + 1, Append(acc, d.x))
    ELSE DFail(Append(acc, d.x))

DecAssumptionElems(items, i, acc) ==
    IF i > Len(items) THEN DOk(acc)
    ELSE AssumptionElemsNext(items, i, acc,
             DecAssumption(items[i], ZeroAssumption))

\* []Assumption
DecAssumptionSlice(v, old) ==
    IF v.t = "arr" THEN DecAssumptionElems(v.kids, 1, <<>>)
    ELSE IF v.t = "null" THEN DOk(<<>>) ELSE DFail(old)

\* json.Unmarshal(data, &a.Assumption[0])
AssumptionFrom(p, elem) ==
    IF p.ok THEN DecAssumption(p.v, elem) ELSE DFail(elem)

UnmarshalAssumption(data, elem) == AssumptionFrom(ParseDocument(data), elem)

\* jsonLib.Unmarshal(data, &a.Assumption)
AssumptionSliceFrom(p, slice) ==
    IF p.ok THEN DecAssumptionSlice(p.v, slice) ELSE DFail(slice)

UnmarshalAssumptionSlice(data, slice) ==
    AssumptionSliceFrom(ParseDocument(data), slice)

(***************************************************************************)
(* Assumptions.UnmarshalJSON: [a, err], the receiver after the call and    *)
(* the error returned.                                                     *)
(***************************************************************************)
ZeroAssumptions == [Assumption |-> <<>>, Count |-> 0]

\* A variant of the '{' case that reports the count the object carries.
ObjectCaseCountFromElement(d) ==
    [a |-> [Assumption |-> <<d.x>>, Count |-> d.x.Count],
     err |-> IF d.ok THEN Nil ELSE Err("json", <<>>, "")]

\* case '{', after json.Unmarshal(data, &a.Assumption[0]) gave d
ObjectCase(d) ==
    [a |-> [Assumption |-> <<d.x>>, Count |-> 1],
     err |-> IF d.ok THEN Nil ELSE Err("json", <<>>, "")]

\* A variant of the '[' case that leaves Count as it was.
ArrayCaseCountKept(a, d) ==
    IF ~d.ok
    THEN [a |-> [a EXCEPT !.Assumption = d.x],
          err |-> WithMessage(Err("jsoniter", <<>>, ""),
                              "error interpreting assumption")]
    ELSE [a |-> [a EXCEPT !.Assumption = d.x], err |-> Nil]

\* case '[', after jsonLib.Unmarshal(data, &a.Assumption) gave d
ArrayCase(a, d) ==
    IF ~d.ok
    THEN [a |-> [a EXCEPT !.Assumption = d.x],
          err |-> WithMessage(Err("jsoniter", <<>>, ""),
                              "error interpreting assumption")]
    ELSE [a |-> [Assumption |-> d.x, Count |-> Len(d.x)], err |-> Nil]

UnmarshalJSON(a, data) ==
    IF Len(data) = 0
    THEN [a |-> a,
          err |-> Err("no bytes in assumptions to unmarshall", <<>>, "")]
    ELSE IF data[1] = 123
    THEN ObjectCase(UnmarshalAssumption(data, ZeroAssumption))
    ELSE IF data[1] = 91
    THEN ArrayCase(a, UnmarshalAssumptionSlice(data, a.Assumption))
    ELSE [a |-> a,
          err |-> Err("assumptions json does not indicate an object or array",
                      RuneString(data[1]), "")]

(***************************************************************************)
(* fasttemplate, as ForActionDisplay uses it.                              *)
(***************************************************************************)
StartTag == T(<<"$","{">>)

EndTag == T(<<"}">>)

\* Template.Reset: the texts and tags of a template, or ok = FALSE when a
\* start tag has no end tag after it.
RECURSIVE TemplateScan(_, _, _)

\* After a start tag, rest the text behind it, m the index of the end tag.
ScanTag(rest, m, texts, tags) ==
    IF m = 0
    THEN [ok |-> FALSE, texts |-> texts, tags |-> tags]
    ELSE TemplateScan(SubSeq(rest, m + Len(EndTag), Len(rest)), texts,
                      Append(tags, SubSeq(rest, 1, m - 1)))

ScanRest(rest, texts, tags) ==
    ScanTag(rest, IndexFrom(rest, EndTag, 1), texts, tags)

\* n the index of the next start tag in s.
ScanText(s, n, texts, tags) ==
    IF n = 0
    THEN [ok |-> TRUE, texts |-> Append(texts, s), tags |-> tags]
    ELSE ScanRest(SubSeq(s, n + Len(StartTag), Len(s)),
                  Append(texts, SubSeq(s, 1, n - 1)), tags)

TemplateScan(s, texts, tags) ==
    ScanText(s, IndexFrom(s, StartTag, 1), texts, tags)

TemplateReset(template) ==
    IF IndexFrom(template, StartTag, 1) = 0
    THEN [ok |-> TRUE, texts |-> <<>>, tags |-> <<>>]
    ELSE TemplateScan(template, <<>>, <<>>)

kDesc1 == T(<<"d","e","s","c","1">>)
kDesc2 == T(<<"d","e","s","c","2">>)

\* A variant of the tag function that writes a tag it has no value for back
\* as it stood in the template.
TagValueKeepUnknown(tag, word, desc1, desc2) ==
    IF tag = kWord THEN word
    ELSE IF tag = kDesc1 THEN desc1
    ELSE IF tag = kDesc2 THEN desc2
    ELSE StartTag \o tag \o EndTag

\* stdTagFunc over the map ForActionDisplay passes: a missing key writes
\* nothing.
TagValue(tag, word, desc1, desc2) ==
    IF tag = kWord THEN word
    ELSE IF tag = kDesc1 THEN desc1
    ELSE IF tag = kDesc2 THEN desc2
    ELSE <<>>

\* A variant of ExecuteString that renders what it rendered once more, as
\* long as that is a template.
ExecuteOnce(template, t, word, desc1, desc2) ==
    IF Len(t.texts) = 0 THEN template
    ELSE Flatten([i \in 1..(2 * Len(t.texts) - 1) |->
                    IF i % 2 = 1 THEN t.texts[(i + 1) \div 2]
                    ELSE TagValue(t.tags[i \div 2], word, desc1, desc2)])

ExecuteAgain(out, word, desc1, desc2) ==
    IF TemplateReset(out).ok
    THEN ExecuteOnce(out, TemplateReset(out), word, desc1, desc2)
    ELSE out

ExecuteStringExpandingAgain(template, t, word, desc1, desc2) ==
    ExecuteAgain(ExecuteOnce(template, t, word, desc1, desc2),
                 word, desc1, desc2)

\* Template.ExecuteString
ExecuteString(template, t, word, desc1, desc2) ==
    IF Len(t.texts) = 0 THEN template
    ELSE Flatten([i \in 1..(2 * Len(t.texts) - 1) |->
                    IF i % 2 = 1 THEN t.texts[(i + 1) \div 2]
                    ELSE TagValue(t.tags[i \div 2], word, desc1, desc2)])

(***************************************************************************)
(* Assumption.ForActionDisplay: [panic, isNil, actions, err].              *)
(***************************************************************************)
ActionAssumption(label, value) ==
    [Label |-> label, Action |-> value.Input, ButtonLabel |-> value.Name,
     Description |-> value.Description]

\* The loop over assumption.Values[1:], template the parsed Template.
DisplayActions(assumption, template, assumedValue) ==
    [i \in 1..(Len(assumption.Values) - 1) |->
        ActionAssumption(
            ExecuteString(assumption.Template, template, assumption.Word,
                          assumedValue, assumption.Values[i + 1].Description),
            assumption.Values[i + 1])]

\* From template := fasttemplate.New(...), which panics on a template it
\* cannot parse.
DisplayWith(assumption, template) ==
    IF ~template.ok
    THEN [panic |-> TRUE, isNil |-> TRUE, actions |-> <<>>, err |-> Nil]
    ELSE [panic |-> FALSE, isNil |-> FALSE,
          actions |-> DisplayActions(assumption, template,
                                     assumption.Values[1].Description),
          err |-> Nil]

\* A variant of ForActionDisplay whose guard lets a single value through.
ForActionDisplayOneValue(assumption) ==
    IF Len(assumption.Values) < 1
    THEN [panic |-> FALSE, isNil |-> TRUE, actions |-> <<>>,
          err |-> Err("nothing to assume", <<>>, "")]
    ELSE DisplayWith(assumption, TemplateReset(assumption.Template))

ForActionDisplay(assumption) ==
    IF Len(assumption.Values) < 2
    THEN [panic |-> FALSE, isNil |-> TRUE, actions |-> <<>>,
          err |-> Err("nothing to assume", <<>>, "")]
    ELSE DisplayWith(assumption, TemplateReset(assumption.Template))

(***************************************************************************)
(* The response model, as far as the operations below read it: of the      *)
(* QueryResult fields Query, Pods, Assumptions, Success, Error and NumPods *)
(* (the other fields are plain tagged strings and numbers decoded like     *)
(* NumPods), of Pod its Title and Scanner.                                 *)
(***************************************************************************)
kQueryresult == T(<<"q","u","e","r","y","r","e","s","u","l","t">>)
kQuery == T(<<"q","u","e","r","y">>)
kPods == T(<<"p","o","d","s">>)
kAssumptions == T(<<"a","s","s","u","m","p","t","i","o","n","s">>)
kSuccess == T(<<"s","u","c","c","e","s","s">>)
kError == T(<<"e","r","r","o","r">>)
kNumpods == T(<<"n","u","m","p","o","d","s">>)
kTitle == T(<<"t","i","t","l","e">>)
kScanner == T(<<"s","c","a","n","n","e","r">>)
kVersion == T(<<"v","e","r","s","i","o","n">>)
kBuildnumber == T(<<"b","u","i","l","d","n","u","m","b","e","r">>)

SetTitle(rec, d) == [ok |-> d.ok, x |-> [rec EXCEPT !.Title = d.x]]
SetScanner(rec, d) == [ok |-> d.ok, x |-> [rec EXCEPT !.Scanner = d.x]]
SetQuery(rec, d) == [ok |-> d.ok, x |-> [rec EXCEPT !.Query = d.x]]
SetPods(rec, d) == [ok |-> d.ok, x |-> [rec EXCEPT !.Pods = d.x]]
SetAssumptions(rec, d) == [ok |-> d.ok, x |-> [rec EXCEPT !.Assumptions = d.x]]
SetSuccess(rec, d) == [ok |-> d.ok, x |-> [rec EXCEPT !.Success = d.x]]
SetError(rec, d) == [ok |-> d.ok, x |-> [rec EXCEPT !.Error = d.x]]
SetNumPods(rec, d) == [ok |-> d.ok, x |-> [rec EXCEPT !.NumPods = d.x]]
SetVersion(rec, d) == [ok |-> d.ok, x |-> [rec EXCEPT !.Version = d.x]]
SetBuildNumber(rec, d) == [ok |-> d.ok, x |-> [rec EXCEPT !.BuildNumber = d.x]]

\* type Pod
ZeroPod == [Title |-> <<>>, Scanner |-> <<>>]

PodField(k, v, rec) ==
    IF k = kTitle THEN SetTitle(rec, DecString(v, rec.Title))
    ELSE IF k = kScanner THEN SetScanner(rec, DecString(v, rec.Scanner))
    ELSE DOk(rec)

RECURSIVE DecPodFields(_, _, _)
PodFieldsNext(ms, i, d) ==
    IF d.ok THEN DecPodFields(ms, i + 1, d.x) ELSE d

DecPodFields(ms, i, rec) ==
    IF i > Len(ms) THEN DOk(rec)
    ELSE PodFieldsNext(ms, i, PodField(ToLower(ms[i][1]), ms[i][2], rec))

DecPod(v, old) ==
    IF v.t = "obj" THEN DecPodFields(v.kids, 1, old)
    ELSE IF v.t = "null" THEN DOk(old) ELSE DFail(old)

RECURSIVE DecPodElems(_, _, _)
PodElemsNext(items, i, acc, d) ==
    IF d.ok THEN DecPodElems(items, i + 1, Append(acc, d.x))
    ELSE DFail(Append(acc, d.x))

DecPodElems(items, i, acc) ==
    IF i > Len(items) THEN DOk(acc)
    ELSE PodElemsNext(items, i, acc, DecPod(items[i], ZeroPod))

\* []Pod
DecPodSlice(v, old) ==
    IF v.t = "arr" THEN DecPodElems(v.kids, 1, <<>>)
    ELSE IF v.t = "null" THEN DOk(<<>>) ELSE DFail(old)

\* type QueryResult
ZeroQueryResult ==
    [Query |-> <<>>, Pods |-> <<>>, Assumptions |-> ZeroAssumptions,
     Success |-> FALSE, Error |-> FALSE, NumPods |-> 0]

\* The Assumptions field: the decoder hands the field's raw bytes, from
\* the first byte of the value to its last, to Assumptions.UnmarshalJSON.
\* A variant of the field decoder that goes on after UnmarshalJSON failed.
AssumptionsFromIgnoringError(r) == [ok |-> TRUE, x |-> r.a]

AssumptionsFrom(r) == [ok |-> r.err = Nil, x |-> r.a]

DecAssumptionsField(s, v, old) ==
    AssumptionsFrom(UnmarshalJSON(old, SubSeq(s, v.lo, v.hi)))

QueryResultField(s, k, v, rec) ==
    IF k = kQuery THEN SetQuery(rec, DecString(v, rec.Query))
    ELSE IF k = kPods THEN SetPods(rec, DecPodSlice(v, rec.Pods))
    ELSE IF k = kAssumptions
         THEN SetAssumptions(rec, DecAssumptionsField(s, v, rec.Assumptions))
    ELSE IF k = kSuccess THEN SetSuccess(rec, DecBool(v, rec.Success))
    ELSE IF k = kError THEN SetError(rec, DecBool(v, rec.Error))
    ELSE IF k = kNumpods THEN SetNumPods(rec, DecInt(v, rec.NumPods))
    ELSE DOk(rec)

RECURSIVE DecQueryResultFields(_, _, _, _)
QueryResultFieldsNext(s, ms, i, d) ==
    IF d.ok THEN DecQueryResultFields(s, ms, i + 1, d.x) ELSE d

DecQueryResultFields(s, ms, i, rec) ==
    IF i > Len(ms) THEN DOk(rec)
    ELSE QueryResultFieldsNext(s, ms, i,
             QueryResultField(s, ToLower(ms[i][1]), ms[i][2], rec))

DecQueryResult(s, v, old) ==
    IF v.t = "obj" THEN DecQueryResultFields(s, v.kids, 1, old)
    ELSE IF v.t = "null" THEN DOk(old) ELSE DFail(old)

\* type Query: the one field Result, tagged queryresult.
RECURSIVE DecQueryFields(_, _, _, _)
QueryFieldsNext(s, ms, i, d) ==
    IF d.ok THEN DecQueryFields(s, ms, i + 1, d.x) ELSE d

DecQueryFields(s, ms, i, rec) ==
    IF i > Len(ms) THEN DOk(rec)
    ELSE IF ToLower(ms[i][1]) = kQueryresult
    THEN QueryFieldsNext(s, ms, i, DecQueryResult(s, ms[i][2], rec))
    ELSE DecQueryFields(s, ms, i + 1, rec)

NotNil(d) == [ok |-> d.ok, isNil |-> FALSE, x |-> d.x]

\* jsonLib.Unmarshal(body, &data) for data of type *Query: [ok, isNil, x].
\* The JSON literal null sets the pointer data to nil.
QueryFrom(body, p, result) ==
    IF ~p.ok THEN [ok |-> FALSE, isNil |-> FALSE, x |-> result]
    ELSE IF p.v.t = "null" THEN [ok |-> TRUE, isNil |-> TRUE, x |-> result]
    ELSE IF p.v.t = "obj"
         THEN NotNil(DecQueryFields(body, p.v.kids, 1, result))
    ELSE [ok |-> FALSE, isNil |-> FALSE, x |-> result]

UnmarshalQuery(body, result) == QueryFrom(body, ParseDocument(body), result)

\* type FastQueryResult, its fields Version and BuildNumber.
ZeroFastQueryResult == [Version |-> <<>>, BuildNumber |-> <<>>]

FastField(k, v, rec) ==
    IF k = kVersion THEN SetVersion(rec, DecString(v, rec.Version))
    ELSE IF k = kBuildnumber
         THEN SetBuildNumber(rec, DecString(v, rec.BuildNumber))
    ELSE DOk(rec)

RECURSIVE DecFastFields(_, _, _)
FastFieldsNext(ms, i, d) ==
    IF d.ok THEN DecFastFields(ms, i + 1, d.x) ELSE d

DecFastFields(ms, i, rec) ==
    IF i > Len(ms) THEN DOk(rec)
    ELSE FastFieldsNext(ms, i, FastField(ToLower(ms[i][1]), ms[i][2], rec))

\* unmarshal: json.NewDecoder(body.Body).Decode(target) reads the first
\* value of the stream and leaves what follows it unread.
FastFrom(p, target) ==
    IF ~p.ok THEN DFail(target)
    ELSE IF p.v.t = "obj" THEN DecFastFields(p.v.kids, 1, target)
    ELSE IF p.v.t = "null" THEN DOk(target)
    ELSE DFail(target)

unmarshal(body, target) == FastFrom(ParseValue(body, SkipWS(body, 1)), target)

(***************************************************************************)
(* Request building.                                                       *)
(***************************************************************************)
Hex(n) == IF n < 10 THEN 48 + n ELSE 55 + n

Unreserved(b) ==
    \/ b >= 97 /\ b <= 122
    \/ b >= 65 /\ b <= 90
    \/ IsDigit(b)
    \/ b \in {45, 95, 46, 126}

\* url.QueryEscape
QueryEscape(s) ==
    Flatten([i \in 1..Len(s) |->
                IF Unreserved(s[i]) THEN <<s[i]>>
                ELSE IF s[i] = 32 THEN <<43>>
                ELSE <<37, Hex(s[i] \div 16), Hex(s[i] % 16)>>])

\* strconv.Itoa
RECURSIVE Itoa(_)
Itoa(n) ==
    IF n < 0 THEN <<45>> \o Itoa(0 - n)
    ELSE IF n < 10 THEN <<48 + n>>
    ELSE Itoa(n \div 10) \o <<48 + (n % 10)>>

\* url.Values.Encode over the pairs in key order.
ParamsEncode(params) ==
    Join([i \in 1..Len(params.kv) |->
            QueryEscape(params.kv[i][1]) \o T(<<"=">>)
                \o QueryEscape(params.kv[i][2])],
         T(<<"&">>))

\* A request URL: the endpoint and the bytes after its question mark.
Url(base, raw) == [base |-> base, raw |-> raw]

NoUrl == Url("", <<>>)

\* type Unit, type Mode
Imperial == 0
Metric == 1
Default == 0
Voice == 1

\* Client.AppID, the application identifier every request carries.
AppID == T(<<"D","E","M","O">>)

(***************************************************************************)
(* Bounds and the inputs drawn within them.                                *)
(***************************************************************************)
\* The most elements an array given to the decoder holds.
MaxElems == 2

\* The most Values an Assumption given to ForActionDisplay holds.
MaxValues == 3

SeqsUpTo(S, n) == UNION {[1..k -> S] : k \in 0..n}

\* JSON text.
Quote(s) == <<34>> \o s \o <<34>>

Member(k, v) == Quote(k) \o <<58>> \o v

Obj(ms) == <<123>> \o Join(ms, <<44>>) \o <<125>>

Arr(xs) == <<91>> \o Join(xs, <<44>>) \o <<93>>

Num(n) == Itoa(n)

tWordDesc == T(<<"$","{","w","o","r","d","}",":","$","{","d","e","s","c","1","}",
                 "/","$","{","d","e","s","c","2","}">>)

ValueText(n, d, i) ==
    Obj(<<Member(kName, n), Member(kDesc, d), Member(kInput, i)>>)

\* {"count":2,"word":"w"}
ObjCount == Obj(<<Member(kCount, Num(2)), Member(kWord, Quote(T(<<"w">>)))>>)

\* The example of the source: a Clash with two values.
ObjClash ==
    Obj(<<Member(kType, Quote(T(<<"c">>))),
          Member(kWord, Quote(T(<<"w">>))),
          Member(kTemplate, Quote(tWordDesc)),
          Member(kCount, Num(2)),
          Member(kValues,
                 Arr(<<ValueText(Quote(T(<<"n">>)), Quote(T(<<"d">>)),
                                 Quote(T(<<"i">>))),
                       ValueText(Quote(T(<<"m">>)), Quote(T(<<"e">>)),
                                 Quote(T(<<"j">>)))>>))>>)

\* Objects that decode as one Assumption.
GoodObjects ==
    { Obj(<<>>), ObjCount, ObjClash,
      \* keys in another case, an unknown key, a count of 0
      Obj(<<Member(T(<<"C","o","u","n","t">>), Num(0)),
            Member(T(<<"x">>), Num(1))>>),
      \* white space inside, a null field
      T(<<"{"," ">>) \o Member(kValues, T(<<" ","n","u","l","l"," ">>))
          \o T(<<"}">>),
      \* a repeated key: the later one wins
      Obj(<<Member(kCount, Num(3)), Member(kCount, Num(12))>>) }

\* Texts that open an object and do not decode as one Assumption.
BadObjects ==
    { Obj(<<Member(kCount, Quote(T(<<"x">>)))>>),      \* count of the wrong type
      Obj(<<Member(kValues, Num(5))>>),                \* values of the wrong type
      T(<<"{">>) \o Member(kCount, Num(2)),            \* cut short
      Obj(<<>>) \o T(<<"x">>),                         \* bytes after the value
      T(<<"{","]">>) }

ElemTexts == {Obj(<<>>), ObjCount, tNull}

\* Arrays that decode as Assumption records.
GoodArrays ==
    {Arr(es) : es \in SeqsUpTo(ElemTexts, MaxElems)}
        \cup {Arr(<<ObjClash, ObjCount>>), T(<<"["," ","]"," ">>)}

\* Texts that open an array and do not decode as Assumption records.
BadArrays ==
    { Arr(<<Num(1)>>), Arr(<<Quote(T(<<"s">>))>>),
      T(<<"[","{","}",",","]">>), T(<<"[","{","}">>), T(<<"[","{","]">>),
      Arr(<<Obj(<<Member(kCount, Quote(T(<<"x">>)))>>)>>),
      Arr(<<>>) \o T(<<"x">>) }

\* Texts whose first byte opens neither an object nor an array.
OtherTexts ==
    { tNull, tTrue, tFalse,
      Num(1), Quote(T(<<"s">>)), T(<<"x">>),
      T(<<" ">>) \o Obj(<<>>), <<9>> \o Arr(<<Obj(<<>>)>>), <<10>> \o ObjCount,
      <<233>>, <<233, 123, 125>> }

\* The raw values given to Assumptions.UnmarshalJSON.
RawInputs ==
    {<<>>} \cup GoodObjects \cup BadObjects \cup GoodArrays \cup BadArrays
        \cup OtherTexts

\* The Assumption records given to ForActionDisplay.
Value(n, d, i) == [Name |-> n, Description |-> d, Input |-> i]

tDesc2 == T(<<"$","{","d","e","s","c","2","}">>)
tMissing == T(<<"$","{","m","i","s","s","i","n","g","}">>)
tWord == T(<<"$","{","w","o","r","d","}">>)

ValueInputs ==
    { Value(T(<<"n">>), T(<<"d">>), T(<<"i">>)),
      Value(T(<<"m">>), tMissing, T(<<"j">>)) }

WordInputs == {T(<<"w">>), tDesc2}

TemplateInputs ==
    { tWordDesc,
      <<>>,
      T(<<"a","b">>),
      tMissing \o T(<<"x">>),
      tWord \o tWord,
      tMissing \o tWord \o tDesc2,
      T(<<"a","}">>),
      T(<<"$","{">>),
      tMissing \o T(<<"$","{","w">>),
      T(<<"$">>) \o tMissing \o T(<<"{","m","i","s","s","i","n","g","}">>) }

AssumptionInputs ==
    { [Values |-> vs, Type |-> T(<<"c">>), Word |-> w, Template |-> t,
       Count |-> c] :
        vs \in SeqsUpTo(ValueInputs, MaxValues), w \in WordInputs,
        t \in TemplateInputs, c \in {0, 2} }

\* The arguments of the network operations.
QueryInputs == {T(<<"a">>), T(<<"a"," ","b">>), T(<<"q","?">>)}

NilParams == [isNil |-> TRUE, kv |-> <<>>]

ParamsInputs ==
    { NilParams,
      [isNil |-> FALSE,
       kv |-> << <<T(<<"f","o","r","m","a","t">>), T(<<"i","m","a","g","e">>)>> >>] }

TimeoutInputs == {0 - 1, 0, 12}

\* The bodies the query endpoint answers with.
RootDoc(ms) == Obj(<<Member(kQueryresult, Obj(ms))>>)

PodsText == Arr(<<Obj(<<Member(kTitle, Quote(T(<<"r">>)))>>)>>)

QueryBodies ==
    { RootDoc(<<Member(kSuccess, tTrue), Member(kAssumptions, x)>>) :
        x \in RawInputs }
    \cup
    { <<>>, tNull, T(<<"x">>), Obj(<<>>), Num(1),
      Obj(<<Member(kQueryresult, tNull)>>),
      T(<<"{">>) \o Quote(kQueryresult) \o T(<<":">>),
      RootDoc(<<Member(kSuccess, Num(1))>>),
      RootDoc(<<Member(kSuccess, tTrue), Member(kNumpods, Num(1)),
                Member(kPods, PodsText), Member(kAssumptions, ObjClash)>>),
      RootDoc(<<Member(kSuccess, tFalse), Member(kPods, PodsText)>>),
      RootDoc(<<Member(kSuccess, tTrue),
                Member(kQuery, Quote(T(<<"z","z">>)))>>),
      RootDoc(<<Member(T(<<"Q","u","e","r","y">>), Quote(T(<<"z","z">>))),
                Member(kAssumptions, T(<<" ">>) \o Arr(<<ObjCount, ObjCount>>))>>) }

\* The bodies the text endpoints answer with.
TextBodies == {T(<<"4","2">>), <<>>}

\* The bodies the query recognizer answers with.
FastBodies ==
    { Obj(<<Member(kVersion, Quote(T(<<"1">>))),
            Member(kBuildnumber, Quote(T(<<"2">>)))>>),
      Obj(<<>>) \o T(<<" ","x">>),
      Obj(<<Member(kVersion, Num(1))>>),
      T(<<"x">>) }

(***************************************************************************)
(* State: the frame of the call the caller is in.  The package keeps no    *)
(* state between calls; a new call starts from a fresh frame.              *)
(***************************************************************************)
VARIABLES
    op,          \* the operation called
    pc,          \* where the call is: "get", "read", "decode", "returned",
                 \* "panicked"
    data,        \* UnmarshalJSON: the raw value
    a,           \* UnmarshalJSON: the receiver
    assumption,  \* ForActionDisplay: the receiver
    args,        \* the network operations: query, params, units, timeout, mode
    url,         \* the request URL built
    gets,        \* the http.Get calls this call has made
    resp,        \* the bytes of the response body
    open,        \* whether the response body is open
    result,      \* the value returned: [isNil, val]
    err          \* the error returned

vars == <<op, pc, data, a, assumption, args, url, gets, resp, open, result, err>>

(***************************************************************************)
(* State the process shares between callers, and the frames of callers     *)
(* that run side by side.  The one-caller specification above leaves these *)
(* as they are; SpecCallers below follows them.                            *)
(***************************************************************************)
VARIABLES
    frame,       \* per caller: the call it is in, its receiver and locals
    stdout,      \* the last line written to the standard output
    cache        \* the types jsonLib has built and kept a decoder for

cvars == <<frame, stdout, cache>>

Callers == {1, 2}

\* A caller's frame between calls.  template is the parsed Template,
\* actions the list built so far.
ZeroFrame ==
    [op |-> "none", pc |-> "returned", data |-> <<>>, a |-> ZeroAssumptions,
     assumption |-> ZeroAssumption, template |-> TemplateReset(<<>>),
     actions |-> <<>>, isNil |-> TRUE, err |-> Nil]

\* fmt.Printf(format, string(data)): the line written.
Printed(line, text) == [line |-> line, text |-> text]

NoOutput == Printed("", <<>>)

ZeroArgs ==
    [query |-> <<>>, params |-> NilParams, units |-> Imperial, timeout |-> 0,
     mode |-> Default]

NoResult == [isNil |-> TRUE, val |-> <<>>]

Some(v) == [isNil |-> FALSE, val |-> v]

NoDecode == data' = <<>> /\ a' = ZeroAssumptions

NoDisplay == assumption' = ZeroAssumption

NoRequest ==
    /\ args' = ZeroArgs /\ url' = NoUrl /\ gets' = 0 /\ resp' = <<>>
    /\ open' = FALSE

Init ==
    /\ op = "none" /\ pc = "returned"
    /\ data = <<>> /\ a = ZeroAssumptions
    /\ assumption = ZeroAssumption
    /\ args = ZeroArgs /\ url = NoUrl /\ gets = 0 /\ resp = <<>>
    /\ open = FALSE
    /\ result = NoResult /\ err = Nil
    /\ frame = [c \in Callers |-> ZeroFrame]
    /\ stdout = NoOutput /\ cache = {}

\* The caller is between calls.
Idle == op = "none"

\* The caller is done with what the call gave it and drops the frame.
Drop ==
    /\ op # "none" /\ pc \in {"returned", "panicked"}
    /\ op' = "none" /\ pc' = "returned"
    /\ result' = NoResult /\ err' = Nil
    /\ NoDecode /\ NoDisplay /\ NoRequest
    /\ UNCHANGED cvars

\* err := a.UnmarshalJSON(data), a a zero Assumptions.
Call_UnmarshalJSON ==
    /\ Idle
    /\ \E d \in RawInputs :
        \E r \in {UnmarshalJSON(ZeroAssumptions, d)} :
            /\ op' = "UnmarshalJSON" /\ pc' = "returned"
            /\ data' = d /\ a' = r.a /\ err' = r.err
            /\ result' = NoResult
    /\ NoDisplay /\ NoRequest
    /\ UNCHANGED cvars

\* actions, err := assumption.ForActionDisplay()
Call_ForActionDisplay ==
    /\ Idle
    /\ \E x \in AssumptionInputs :
        \E r \in {ForActionDisplay(x)} :
            /\ op' = "ForActionDisplay"
            /\ pc' = IF r.panic THEN "panicked" ELSE "returned"
            /\ assumption' = x
            /\ result' = [isNil |-> r.isNil, val |-> r.actions]
            /\ err' = r.err
    /\ NoDecode /\ NoRequest
    /\ UNCHANGED cvars

\* The entry of a network operation: the URL is built, nothing is sent yet.
Enter(o, ar, u) ==
    /\ op' = o /\ pc' = "get"
    /\ args' = ar /\ url' = u
    /\ gets' = 0 /\ resp' = <<>> /\ open' = FALSE
    /\ result' = NoResult /\ err' = Nil
    /\ NoDecode /\ NoDisplay
    /\ UNCHANGED cvars

\* Return (val, err) to the caller.
Return(val, e) ==
    /\ pc' = "returned" /\ result' = val /\ err' = e

\* res, err := http.Get(url): the request is issued; it fails, or answers
\* with one of `bodies`, open.
HttpGet(bodies, failed, answered) ==
    /\ pc = "get"
    /\ gets' = gets + 1
    /\ \/ /\ failed
          /\ UNCHANGED <<resp, open>>
       \/ \E b \in bodies :
            /\ resp' = b /\ open' = TRUE
            /\ answered
    /\ UNCHANGED <<op, data, a, assumption, args, url>>
    /\ UNCHANGED cvars

TransportError == Err("transport", <<>>, "")

ReadError == Err("read", <<>>, "")

(***************************************************************************)
(* Client.GetQueryResult                                                   *)
(***************************************************************************)
GetQueryResultUrl(query, params) ==
    Url("https://api.wolframalpha.com/v2/query",
        T(<<"i","n","p","u","t","=">>) \o QueryEscape(query)
            \o T(<<"&","a","p","p","i","d","=">>) \o AppID
            \o T(<<"&","o","u","t","p","u","t","=","J","S","O","N">>)
            \o (IF params.isNil THEN <<>> ELSE T(<<"&">>) \o ParamsEncode(params)))

GetQueryResult_Call ==
    /\ Idle
    /\ \E q \in QueryInputs, p \in ParamsInputs :
           Enter("GetQueryResult", [ZeroArgs EXCEPT !.query = q, !.params = p],
                 GetQueryResultUrl(q, p))

GetQueryResult_Get ==
    /\ op = "GetQueryResult"
    /\ HttpGet(QueryBodies,
               Return(NoResult, WithMessage(TransportError,
                          "error in wolfram alpha http request")),
               pc' = "read" /\ UNCHANGED <<result, err>>)

\* A variant of the read step that issues the request again when the body
\* cannot be read.
GetQueryResult_ReadRetry ==
    /\ op = "GetQueryResult" /\ pc = "read"
    /\ \/ pc' = "get" /\ UNCHANGED <<result, err>>
       \/ pc' = "decode" /\ UNCHANGED <<result, err>>
    /\ UNCHANGED <<op, data, a, assumption, args, url, gets, resp, open>>
    /\ UNCHANGED cvars

\* body, err := ioutil.ReadAll(res.Body)
GetQueryResult_Read ==
    /\ op = "GetQueryResult" /\ pc = "read"
    /\ \/ Return(NoResult, WithMessage(ReadError,
                     "error in obtaining full wolfram alpha http result"))
       \/ pc' = "decode" /\ UNCHANGED <<result, err>>
    /\ UNCHANGED <<op, data, a, assumption, args, url, gets, resp, open>>
    /\ UNCHANGED cvars

\* A variant of the return that hands back what was decoded so far together
\* with the error.
QueryResultReturnPartial(d) ==
    IF ~d.ok
    THEN [panic |-> FALSE, result |-> Some(d.x),
          err |-> WithMessage(Err("jsoniter", <<>>, ""),
                      "unable to interpret wolfram alpha json result")]
    ELSE IF d.isNil
    THEN [panic |-> TRUE, result |-> NoResult, err |-> Nil]
    ELSE [panic |-> FALSE, result |-> Some(d.x), err |-> Nil]

\* From data := &Query{} to the return: [panic, result, err].  query is the
\* local the function escaped on entry, d what jsonLib.Unmarshal gave.
QueryResultReturn(d) ==
    IF ~d.ok
    THEN [panic |-> FALSE, result |-> NoResult,
          err |-> WithMessage(Err("jsoniter", <<>>, ""),
                      "unable to interpret wolfram alpha json result")]
    ELSE IF d.isNil    \* &data.Result with data = nil
    THEN [panic |-> TRUE, result |-> NoResult, err |-> Nil]
    ELSE [panic |-> FALSE, result |-> Some(d.x), err |-> Nil]

GetQueryResultDecode(query, body) ==
    QueryResultReturn(
        UnmarshalQuery(body, [ZeroQueryResult EXCEPT !.Query = QueryEscape(query)]))

GetQueryResult_Decode ==
    /\ op = "GetQueryResult" /\ pc = "decode"
    /\ \E r \in {GetQueryResultDecode(args.query, resp)} :
           /\ pc' = IF r.panic THEN "panicked" ELSE "returned"
           /\ result' = r.result /\ err' = r.err
    /\ UNCHANGED <<op, data, a, assumption, args, url, gets, resp, open>>
    /\ UNCHANGED cvars

(***************************************************************************)
(* Client.GetSimpleQuery                                                   *)
(***************************************************************************)
GetSimpleQueryUrl(query, params) ==
    Url("http://api.wolframalpha.com/v1/simple",
        T(<<"a","p","p","i","d","=">>) \o AppID
            \o T(<<"&","i","n","p","u","t","=">>) \o QueryEscape(query)
            \o T(<<"&","o","u","t","p","u","t","=","j","s","o","n">>)
            \o (IF params.isNil THEN <<>> ELSE T(<<"&">>) \o ParamsEncode(params)))

GetSimpleQuery_Call ==
    /\ Idle
    /\ \E q \in QueryInputs, p \in ParamsInputs :
           Enter("GetSimpleQuery", [ZeroArgs EXCEPT !.query = q, !.params = p],
                 GetSimpleQueryUrl(q, p))

\* The open body and the URL are returned as they are.
GetSimpleQuery_Get ==
    /\ op = "GetSimpleQuery"
    /\ HttpGet(TextBodies,
               Return([isNil |-> TRUE, val |-> NoUrl], TransportError),
               Return(Some(url), Nil))

(***************************************************************************)
(* Client.GetShortAnswerQuery, Client.GetSpokenAnswerQuery                 *)
(***************************************************************************)
\* A variant of the query parameters that adds the timeout only when it is
\* above zero.
AnswerQueryPositiveTimeout(query, units, timeout) ==
    QueryEscape(query)
        \o (IF units = Imperial
            THEN T(<<"&","u","n","i","t","s","=","i","m","p","e","r","i","a","l">>)
            ELSE IF units = Metric
            THEN T(<<"&","u","n","i","t","s","=","m","e","t","r","i","c">>)
            ELSE <<>>)
        \o (IF timeout > 0
            THEN T(<<"&","t","i","m","e","o","u","t","=">>) \o Itoa(timeout)
            ELSE <<>>)

AnswerQuery(query, units, timeout) ==
    QueryEscape(query)
        \o (IF units = Imperial
            THEN T(<<"&","u","n","i","t","s","=","i","m","p","e","r","i","a","l">>)
            ELSE IF units = Metric
            THEN T(<<"&","u","n","i","t","s","=","m","e","t","r","i","c">>)
            ELSE <<>>)
        \o (IF timeout # 0
            THEN T(<<"&","t","i","m","e","o","u","t","=">>) \o Itoa(timeout)
            ELSE <<>>)

AnswerRaw(query, units, timeout) ==
    T(<<"a","p","p","i","d","=">>) \o AppID \o T(<<"&","i","=">>)
        \o AnswerQuery(query, units, timeout)
        \o T(<<"&","o","u","t","p","u","t","=","j","s","o","n">>)

GetShortAnswerQueryUrl(query, units, timeout) ==
    Url("https://api.wolframalpha.com/v1/result",
        AnswerRaw(query, units, timeout))

GetSpokenAnswerQueryUrl(query, units, timeout) ==
    Url("https://api.wolframalpha.com/v1/spoken",
        AnswerRaw(query, units, timeout))

GetShortAnswerQuery_Call ==
    /\ Idle
    /\ \E q \in QueryInputs, u \in {Imperial, Metric}, t \in TimeoutInputs :
           Enter("GetShortAnswerQuery",
                 [ZeroArgs EXCEPT !.query = q, !.units = u, !.timeout = t],
                 GetShortAnswerQueryUrl(q, u, t))

GetSpokenAnswerQuery_Call ==
    /\ Idle
    /\ \E q \in QueryInputs, u \in {Imperial, Metric}, t \in TimeoutInputs :
           Enter("GetSpokenAnswerQuery",
                 [ZeroArgs EXCEPT !.query = q, !.units = u, !.timeout = t],
                 GetSpokenAnswerQueryUrl(q, u, t))

AnswerOps == {"GetShortAnswerQuery", "GetSpokenAnswerQuery"}

GetAnswerQuery_Get ==
    /\ op \in AnswerOps
    /\ HttpGet(TextBodies,
               Return(Some(<<>>), TransportError),
               pc' = "read" /\ UNCHANGED <<result, err>>)

\* defer res.Body.Close(); b, err := ioutil.ReadAll(res.Body)
GetAnswerQuery_Read ==
    /\ op \in AnswerOps /\ pc = "read"
    /\ \/ Return(Some(<<>>), ReadError)
       \/ Return(Some(resp), Nil)
    /\ open' = FALSE
    /\ UNCHANGED <<op, data, a, assumption, args, url, gets, resp>>
    /\ UNCHANGED cvars

(***************************************************************************)
(* Client.GetFastQueryRecognizer                                           *)
(***************************************************************************)
GetFastQueryRecognizerUrl(query, mode) ==
    Url("https://www.wolframalpha.com/queryrecognizer/query.jsp",
        T(<<"a","p","p","i","d","=">>) \o AppID \o T(<<"&","i","=">>)
            \o QueryEscape(query)
            \o (IF mode = Default
                THEN T(<<"&","m","o","d","e","=","D","e","f","a","u","l","t">>)
                ELSE IF mode = Voice
                THEN T(<<"&","m","o","d","e","=","V","o","i","c","e">>)
                ELSE <<>>)
            \o T(<<"&","o","u","t","p","u","t","=","j","s","o","n">>))

GetFastQueryRecognizer_Call ==
    /\ Idle
    /\ \E q \in QueryInputs, m \in {Default, Voice} :
           Enter("GetFastQueryRecognizer",
                 [ZeroArgs EXCEPT !.query = q, !.mode = m],
                 GetFastQueryRecognizerUrl(q, m))

GetFastQueryRecognizer_Get ==
    /\ op = "GetFastQueryRecognizer"
    /\ HttpGet(FastBodies,
               Return(NoResult, TransportError),
               pc' = "decode" /\ UNCHANGED <<result, err>>)

\* err = unmarshal(res, qres), which closes the body.
GetFastQueryRecognizer_Decode ==
    /\ op = "GetFastQueryRecognizer" /\ pc = "decode"
    /\ \E d \in {unmarshal(resp, ZeroFastQueryResult)} :
           IF d.ok THEN Return(Some(d.x), Nil)
           ELSE Return(NoResult, Err("json", <<>>, ""))
    /\ open' = FALSE
    /\ UNCHANGED <<op, data, a, assumption, args, url, gets, resp>>
    /\ UNCHANGED cvars

Next ==
    \/ Drop
    \/ Call_UnmarshalJSON
    \/ Call_ForActionDisplay
    \/ GetQueryResult_Call
    \/ GetQueryResult_Get
    \/ GetQueryResult_Read
    \/ GetQueryResult_Decode
    \/ GetSimpleQuery_Call
    \/ GetSimpleQuery_Get
    \/ GetShortAnswerQuery_Call
    \/ GetSpokenAnswerQuery_Call
    \/ GetAnswerQuery_Get
    \/ GetAnswerQuery_Read
    \/ GetFastQueryRecognizer_Call
    \/ GetFastQueryRecognizer_Get
    \/ GetFastQueryRecognizer_Decode

Spec == Init /\ [][Next]_vars

(***************************************************************************)
(* Callers side by side.  Each caller runs Assumptions.UnmarshalJSON on    *)
(* its own receiver or Assumption.ForActionDisplay on its own Assumption,  *)
(* one statement at a time; the steps of different callers interleave.     *)
(* Shared between them are the standard output the Printf calls write to   *)
(* and the decoders jsonLib keeps.                                         *)
(***************************************************************************)
CallerObjects == {ObjCount, T(<<" ">>) \o Obj(<<>>)}

CallerArrays ==
    {Arr(<<ObjClash, ObjCount>>), Arr(<<Num(1)>>)}
        \cup {Arr([i \in 1..MaxElems |-> ObjCount])}

\* The raw values the callers decode.
CallerRawInputs == {<<>>, tNull} \cup CallerObjects \cup CallerArrays

\* The Assumption records the callers display.
CallerAssumptionInputs ==
    { [Values |-> vs, Type |-> T(<<"c">>), Word |-> tDesc2, Template |-> t,
       Count |-> 2] :
        vs \in { <<Value(T(<<"n">>), T(<<"d">>), T(<<"i">>))>>,
                 [i \in 1..MaxValues |->
                     IF i = 2 THEN Value(T(<<"m">>), tMissing, T(<<"j">>))
                     ELSE Value(T(<<"n">>), T(<<"d">>), T(<<"i">>))] },
        t \in {tWordDesc, T(<<"$","{">>)} }

\* A variant of Step in which the callers' receivers are one target: what
\* a step writes to its receiver shows in every caller's receiver.
StepOnSharedReceiver(c, f) ==
    frame' = [d \in Callers |->
                 IF d = c THEN f ELSE [frame[d] EXCEPT !.a = f.a]]

\* A step of caller c: its frame (its own receiver and locals) becomes f,
\* no other caller's frame changes.
Step(c, f) == frame' = [frame EXCEPT ![c] = f]

\* Caller c returns: its receiver is a, its error e.
Returned(f, r) == [f EXCEPT !.pc = "returned", !.a = r.a, !.err = r.err]

\* jsonLib.Unmarshal(data, &a.Assumption): the decoder for the type is
\* taken from the cache when it is there and built when it is not; what it
\* decodes is the same.
jsonLibDecodeKeepsCache(kept, raw, slice) ==
    IF "[]Assumption" \in kept THEN DOk(slice)
    ELSE UnmarshalAssumptionSlice(raw, slice)

jsonLibDecode(kept, raw, slice) == UnmarshalAssumptionSlice(raw, slice)

\* err := a.UnmarshalJSON(data), a a zero Assumptions
Caller_UnmarshalJSON ==
    \E c \in Callers, d \in CallerRawInputs :
        /\ frame[c].op = "none"
        /\ Step(c, [ZeroFrame EXCEPT !.op = "UnmarshalJSON", !.pc = "len",
                                     !.data = d])
        /\ UNCHANGED <<stdout, cache>>
        /\ UNCHANGED vars

\* if len(data) == 0 { return ... }; fmt.Printf(...)
UnmarshalJSON_Len ==
    \E c \in Callers :
        /\ frame[c].op = "UnmarshalJSON" /\ frame[c].pc = "len"
        /\ IF Len(frame[c].data) = 0
           THEN /\ Step(c, Returned(frame[c],
                        [a |-> frame[c].a,
                         err |-> Err("no bytes in assumptions to unmarshall",
                                     <<>>, "")]))
                /\ UNCHANGED stdout
           ELSE /\ Step(c, [frame[c] EXCEPT !.pc = "switch"])
                /\ stdout' = Printed("assumptions", frame[c].data)
        /\ UNCHANGED cache
        /\ UNCHANGED vars

\* switch data[0]: the Printf and the assignments of the case, up to the
\* call of the decoder; the default case returns.
UnmarshalJSON_Switch ==
    \E c \in Callers :
        /\ frame[c].op = "UnmarshalJSON" /\ frame[c].pc = "switch"
        /\ IF frame[c].data[1] = 123
           THEN /\ Step(c, [frame[c] EXCEPT
                                !.pc = "object",
                                !.a = [Assumption |-> <<ZeroAssumption>>,
                                       Count |-> 1]])
                /\ stdout' = Printed("assumptions (object", frame[c].data)
           ELSE IF frame[c].data[1] = 91
           THEN /\ Step(c, [frame[c] EXCEPT !.pc = "array"])
                /\ stdout' = Printed("assumptions (array", frame[c].data)
           ELSE /\ Step(c, Returned(frame[c],
                        [a |-> frame[c].a,
                         err |-> Err("assumptions json does not indicate an object or array",
                                     RuneString(frame[c].data[1]), "")]))
                /\ UNCHANGED stdout
        /\ UNCHANGED cache
        /\ UNCHANGED vars

\* return json.Unmarshal(data, &a.Assumption[0])
UnmarshalJSON_Object ==
    \E c \in Callers :
        /\ frame[c].op = "UnmarshalJSON" /\ frame[c].pc = "object"
        /\ Step(c, Returned(frame[c],
                   ObjectCase(UnmarshalAssumption(frame[c].data,
                                                  frame[c].a.Assumption[1]))))
        /\ UNCHANGED <<stdout, cache>>
        /\ UNCHANGED vars

\* jsonLib.Unmarshal(data, &a.Assumption) and what follows it
UnmarshalJSON_Array ==
    \E c \in Callers :
        /\ frame[c].op = "UnmarshalJSON" /\ frame[c].pc = "array"
        /\ Step(c, Returned(frame[c],
                   ArrayCase(frame[c].a,
                             jsonLibDecode(cache, frame[c].data,
                                           frame[c].a.Assumption))))
        /\ cache' = cache \cup {"[]Assumption"}
        /\ UNCHANGED stdout
        /\ UNCHANGED vars

\* actions, err := assumption.ForActionDisplay()
Caller_ForActionDisplay ==
    \E c \in Callers, x \in CallerAssumptionInputs :
        /\ frame[c].op = "none"
        /\ Step(c, [ZeroFrame EXCEPT !.op = "ForActionDisplay",
                                     !.pc = "guard", !.assumption = x])
        /\ UNCHANGED <<stdout, cache>>
        /\ UNCHANGED vars

\* if len(assumption.Values) < 2 { return nil, ... }; actions := make(...)
ForActionDisplay_Guard ==
    \E c \in Callers :
        /\ frame[c].op = "ForActionDisplay" /\ frame[c].pc = "guard"
        /\ IF Len(frame[c].assumption.Values) < 2
           THEN Step(c, [frame[c] EXCEPT !.pc = "returned",
                                         !.err = Err("nothing to assume",
                                                     <<>>, "")])
           ELSE Step(c, [frame[c] EXCEPT !.pc = "template"])
        /\ UNCHANGED <<stdout, cache>>
        /\ UNCHANGED vars

\* template := fasttemplate.New(assumption.Template, "${", "}")
ForActionDisplay_Template ==
    \E c \in Callers :
        /\ frame[c].op = "ForActionDisplay" /\ frame[c].pc = "template"
        /\ IF TemplateReset(frame[c].assumption.Template).ok
           THEN Step(c, [frame[c] EXCEPT
                            !.pc = "loop",
                            !.template =
                                TemplateReset(frame[c].assumption.Template)])
           ELSE Step(c, [frame[c] EXCEPT !.pc = "panicked"])
        /\ UNCHANGED <<stdout, cache>>
        /\ UNCHANGED vars

\* One turn of the loop over assumption.Values[1:], or the return after it.
ForActionDisplay_Loop ==
    \E c \in Callers :
        /\ frame[c].op = "ForActionDisplay" /\ frame[c].pc = "loop"
        /\ IF Len(frame[c].actions) < Len(frame[c].assumption.Values) - 1
           THEN Step(c, [frame[c] EXCEPT !.actions =
                    Append(frame[c].actions,
                        ActionAssumption(
                            ExecuteString(
                                frame[c].assumption.Template,
                                frame[c].template,
                                frame[c].assumption.Word,
                                frame[c].assumption.Values[1].Description,
                                frame[c].assumption.Values[
                                    Len(frame[c].actions) + 2].Description),
                            frame[c].assumption.Values[
                                Len(frame[c].actions) + 2]))])
           ELSE Step(c, [frame[c] EXCEPT !.pc = "returned", !.isNil = FALSE])
        /\ UNCHANGED <<stdout, cache>>
        /\ UNCHANGED vars

\* The caller is done with what the call gave it.
Caller_Drop ==
    \E c \in Callers :
        /\ frame[c].op # "none"
        /\ frame[c].pc \in {"returned", "panicked"}
        /\ Step(c, ZeroFrame)
        /\ UNCHANGED <<stdout, cache>>
        /\ UNCHANGED vars

NextCallers ==
    \/ Caller_UnmarshalJSON
    \/ UnmarshalJSON_Len
    \/ UnmarshalJSON_Switch
    \/ UnmarshalJSON_Object
    \/ UnmarshalJSON_Array
    \/ Caller_ForActionDisplay
    \/ ForActionDisplay_Guard
    \/ ForActionDisplay_Template
    \/ ForActionDisplay_Loop
    \/ Caller_Drop

SpecCallers == Init /\ [][NextCallers]_<<vars, cvars>>

(***************************************************************************)
(* Properties of Assumptions.UnmarshalJSON                                 *)
(***************************************************************************)
Unmarshalled == op = "UnmarshalJSON" /\ pc = "returned"

\* The elements of the array the raw value spells, as the JSON text has them.
WireElements(raw) == ParseDocument(raw).v.kids

\* C1: a raw value that opens with '{' and decodes as one Assumption record
\* leaves exactly one element and Count 1, without error; the count the
\* object carries is the element's Count, never the list's.
C1_ObjectYieldsOneElement ==
    (/\ Unmarshalled /\ Len(data) > 0 /\ data[1] = 123
     /\ UnmarshalAssumption(data, ZeroAssumption).ok)
    => /\ err = Nil
       /\ Len(a.Assumption) = 1
       /\ a.Count = 1
       /\ a.Assumption[1] = UnmarshalAssumption(data, ZeroAssumption).x

\* An object that carries count 2 was decoded: the list counts 1, the
\* element 2.
C1_Witness ==
    /\ Unmarshalled /\ data = ObjCount /\ err = Nil
    /\ a.Count = 1 /\ Len(a.Assumption) = 1 /\ a.Assumption[1].Count = 2

\* C2: a raw value that opens with '[' and decodes as a list of Assumption
\* records leaves one element per element of the array, in the order of the
\* text, and Count equal to the number of elements, without error.
C2_ArrayYieldsItsElements ==
    (/\ Unmarshalled /\ Len(data) > 0 /\ data[1] = 91
     /\ UnmarshalAssumptionSlice(data, <<>>).ok)
    => /\ err = Nil
       /\ a.Count = Len(a.Assumption)
       /\ Len(a.Assumption) = Len(WireElements(data))
       /\ \A i \in 1..Len(a.Assumption) :
            a.Assumption[i] = DecAssumption(WireElements(data)[i], ZeroAssumption).x

\* An array of two different objects was decoded: two elements, in order.
C2_Witness ==
    /\ Unmarshalled /\ data = Arr(<<ObjClash, ObjCount>>) /\ err = Nil
    /\ a.Count = 2 /\ Len(a.Assumption) = 2
    /\ Len(a.Assumption[1].Values) = 2 /\ a.Assumption[1].Count = 2
    /\ Len(a.Assumption[2].Values) = 0 /\ a.Assumption[2].Count = 2

\* C3: a raw value that is empty, or whose first byte is neither '{' nor
\* '[', is an error, and for a raw value that is not empty the message
\* contains the first byte.
C3_MessageHoldsFirstByte ==
    (Unmarshalled /\ (Len(data) = 0 \/ data[1] \notin {123, 91}))
    => /\ err # Nil
       /\ Len(data) > 0 => \E i \in 1..Len(err.arg) : err.arg[i] = data[1]

\* C3, the part the code keeps: such a raw value is an error and leaves the
\* receiver alone, and a first byte below 0x80 is in the message as it is.
C3_ErrorAndAsciiByte ==
    (Unmarshalled /\ (Len(data) = 0 \/ data[1] \notin {123, 91}))
    => /\ err # Nil
       /\ a = ZeroAssumptions
       /\ Len(data) > 0 /\ data[1] < 128 => err.arg = <<data[1]>>

(***************************************************************************)
(* Properties of Assumption.ForActionDisplay                               *)
(***************************************************************************)
Displayed == op = "ForActionDisplay"

\* The label the template gives for the value at index i (from 0) of
\* Values[1:].
Rendered(asm, i) ==
    ExecuteString(asm.Template, TemplateReset(asm.Template), asm.Word,
                  asm.Values[1].Description, asm.Values[i + 1].Description)

\* C4: with no value or one value the call returns an error and a nil list,
\* whatever the Template is.
C4_TooFewValuesIsError ==
    (Displayed /\ Len(assumption.Values) < 2)
    => /\ pc = "returned"
       /\ err # Nil
       /\ result = NoResult

\* One value and a template that cannot be parsed: the error, nothing else.
C4_Witness ==
    /\ Displayed /\ pc = "returned"
    /\ Len(assumption.Values) = 1 /\ assumption.Template = StartTag
    /\ err # Nil /\ result.isNil

\* C5: with n >= 2 values the call returns n-1 actions and no error; the
\* i-th takes Action, ButtonLabel and Description from Values[i+1] and its
\* Label from the Template rendered with word, desc1 and desc2.
C5_OneActionPerAlternative ==
    (Displayed /\ Len(assumption.Values) >= 2)
    => /\ pc = "returned"
       /\ err = Nil
       /\ ~result.isNil
       /\ Len(result.val) = Len(assumption.Values) - 1
       /\ \A i \in 1..Len(result.val) :
            /\ result.val[i].Action = assumption.Values[i + 1].Input
            /\ result.val[i].ButtonLabel = assumption.Values[i + 1].Name
            /\ result.val[i].Description = assumption.Values[i + 1].Description
            /\ result.val[i].Label = Rendered(assumption, i)

\* C5, the part the code keeps: the same for a Template in which every
\* start tag has its end tag.
C5_WhenTemplateParses ==
    (/\ Displayed /\ Len(assumption.Values) >= 2
     /\ TemplateReset(assumption.Template).ok)
    => /\ pc = "returned"
       /\ err = Nil
       /\ ~result.isNil
       /\ Len(result.val) = Len(assumption.Values) - 1
       /\ \A i \in 1..Len(result.val) :
            /\ result.val[i].Action = assumption.Values[i + 1].Input
            /\ result.val[i].ButtonLabel = assumption.Values[i + 1].Name
            /\ result.val[i].Description = assumption.Values[i + 1].Description
            /\ result.val[i].Label = Rendered(assumption, i)

\* The names of the placeholders of a template that are none of word,
\* desc1, desc2.
UnknownTags(template) ==
    {TemplateReset(template).tags[j] :
        j \in 1..Len(TemplateReset(template).tags)} \ {kWord, kDesc1, kDesc2}

Placeholder(name) == StartTag \o name \o EndTag

\* What a placeholder stands for in the label for Values[i+1]; nothing when
\* its name is unknown.
KnownValue(tag, asm, i) ==
    IF tag = kWord THEN asm.Word
    ELSE IF tag = kDesc1 THEN asm.Values[1].Description
    ELSE IF tag = kDesc2 THEN asm.Values[i + 1].Description
    ELSE <<>>

\* The template's texts and what its placeholders stand for, in order.
LabelOf(asm, t, i) ==
    Flatten([j \in 1..(2 * Len(t.texts) - 1) |->
                IF j % 2 = 1 THEN t.texts[(j + 1) \div 2]
                ELSE KnownValue(t.tags[j \div 2], asm, i)])

\* C6, as stated, for a call that returns its list: when the Template has a
\* placeholder with an unknown name, the text "${name}" is in no Label of
\* the list.
C6_LiteralNeverInLabel ==
    (/\ Displayed /\ pc = "returned" /\ Len(assumption.Values) >= 2
     /\ UnknownTags(assumption.Template) # {})
    => /\ err = Nil
       /\ ~result.isNil
       /\ \A i \in 1..Len(result.val) :
            \A name \in UnknownTags(assumption.Template) :
                ~Contains(result.val[i].Label, Placeholder(name))

\* C6, amended: when the Template has a placeholder with an unknown name,
\* then either a later start tag has no end tag and the call panics, or the
\* call returns n-1 actions without error and each Label is the Template's
\* texts and the values of word, desc1 and desc2 in order, with nothing
\* where the unknown placeholder stood.
C6_UnknownPlaceholderWritesNothing ==
    (/\ Displayed /\ Len(assumption.Values) >= 2
     /\ UnknownTags(assumption.Template) # {})
    => IF TemplateReset(assumption.Template).ok
       THEN /\ pc = "returned"
            /\ err = Nil
            /\ ~result.isNil
            /\ Len(result.val) = Len(assumption.Values) - 1
            /\ \A i \in 1..Len(result.val) :
                 result.val[i].Label =
                     LabelOf(assumption, TemplateReset(assumption.Template), i)
       ELSE pc = "panicked"

\* "${missing}${word}${desc2}" with the second description "${missing}":
\* the placeholder wrote nothing, and the label still reads "w${missing}".
C6_Witness ==
    /\ Displayed /\ pc = "returned" /\ err = Nil
    /\ assumption.Template = tMissing \o tWord \o tDesc2
    /\ assumption.Word = T(<<"w">>)
    /\ Len(assumption.Values) = 2
    /\ assumption.Values[2].Description = tMissing
    /\ result.val[1].Label = T(<<"w">>) \o tMissing

(***************************************************************************)
(* Properties of Client.GetQueryResult                                     *)
(***************************************************************************)
QueryReturned == op = "GetQueryResult" /\ pc = "returned"

\* C7: the QueryResult returned has Query equal to the query text the
\* caller gave, whatever the body was.
C7_QueryIsCallersText ==
    (QueryReturned /\ err = Nil) => result.val.Query = args.query

\* C7, what the code gives instead: the escaped query text, or the text of
\* the body's own query member.
C7_QueryIsEscapedOrFromBody ==
    (QueryReturned /\ err = Nil)
    => \/ result.val.Query = QueryEscape(args.query)
       \/ Contains(resp, Quote(result.val.Query))

\* C8: a return with an error carries no QueryResult, and the error is the
\* cause under the fixed message of the step that failed; a return without
\* error carries a QueryResult.
C8_ErrorMeansNoResult ==
    QueryReturned
    => /\ err = Nil => ~result.isNil
       /\ err # Nil =>
            /\ result = NoResult
            /\ <<err.cause, err.tag>> \in
                 { <<"transport", "error in wolfram alpha http request">>,
                   <<"read", "error in obtaining full wolfram alpha http result">>,
                   <<"jsoniter", "unable to interpret wolfram alpha json result">> }
            /\ err.cause = "transport" <=> ~open

\* A body whose success member decoded before its assumptions member
\* failed: the error, no result.
C8_Witness ==
    /\ QueryReturned
    /\ resp = RootDoc(<<Member(kSuccess, tTrue),
                        Member(kAssumptions, Quote(T(<<"s">>)))>>)
    /\ err.tag = "unable to interpret wolfram alpha json result"
    /\ err.cause = "jsoniter"
    /\ result = NoResult

\* The values of the members of object v whose key matches key.
MemberValues(v, key) ==
    IF v.t # "obj" THEN {}
    ELSE {v.kids[j][2] :
            j \in {k \in 1..Len(v.kids) : ToLower(v.kids[k][1]) = key}}

\* A value no Assumptions can be read from: a string, a number, a boolean,
\* null, an object that is no Assumption record, an array that is no list
\* of them.
BadAssumptionsValue(v) ==
    \/ v.t \in {"str", "num", "true", "false", "null"}
    \/ v.t = "obj" /\ ~DecAssumption(v, ZeroAssumption).ok
    \/ v.t = "arr" /\ ~DecAssumptionSlice(v, <<>>).ok

\* A well-formed root document whose queryresult has such an assumptions
\* member.
BadAssumptionsDoc(body) ==
    /\ ParseDocument(body).ok
    /\ \E q \in MemberValues(ParseDocument(body).v, kQueryresult) :
         \E v \in MemberValues(q, kAssumptions) : BadAssumptionsValue(v)

\* C9: for a root document whose queryresult.assumptions cannot be decoded
\* the call returns an error and no QueryResult; when the body was read, it
\* is the error of the decoding step.
C9_BadAssumptionsFailDocument ==
    (/\ op = "GetQueryResult" /\ pc \in {"returned", "panicked"}
     /\ BadAssumptionsDoc(resp))
    => /\ pc = "returned"
       /\ err # Nil
       /\ result = NoResult
       /\ err.cause # "read" =>
            err.tag = "unable to interpret wolfram alpha json result"

\* The document {"queryresult":{"success":true,"assumptions":null}} went
\* through the decoding step.
C9_Witness ==
    /\ QueryReturned
    /\ resp = RootDoc(<<Member(kSuccess, tTrue), Member(kAssumptions, tNull)>>)
    /\ err.tag = "unable to interpret wolfram alpha json result"
    /\ result = NoResult

(***************************************************************************)
(* Properties of the network operations                                    *)
(***************************************************************************)
\* C10: a call issues at most one GET; the request is issued from the get
\* step only, before any other was, and a call that returned an error does
\* nothing more.
C10_AtMostOneGet ==
    /\ [](gets <= 1)
    /\ [][/\ gets' > gets => pc = "get" /\ gets = 0
          /\ (op # "none" /\ pc = "returned" /\ err # Nil) => op' = "none"]_vars

\* A call whose one request was answered and whose decoding failed.
C10_Witness ==
    /\ QueryReturned /\ gets = 1 /\ open
    /\ err.cause = "jsoniter"

(***************************************************************************)
(* Properties of the QueryResult returned                                  *)
(***************************************************************************)
\* C11: a QueryResult returned without error whose Success is false has no
\* Pods, whatever the body was.
C11_FailedMeansNoPods ==
    (QueryReturned /\ err = Nil /\ ~result.val.Success)
    => result.val.Pods = <<>>

\* C11, what the code gives instead: Success and Pods are each what the
\* body's own member of that name says, independently of one another.
C11_PodsAreTheBodysPods ==
    (QueryReturned /\ err = Nil)
    => \A q \in MemberValues(ParseDocument(resp).v, kQueryresult) :
         \A v \in MemberValues(q, kPods) :
            v.t = "arr" => Len(result.val.Pods) = Len(v.kids)

(***************************************************************************)
(* Properties of callers side by side (SpecCallers)                        *)
(***************************************************************************)
DecodeReturned(c) == frame[c].op = "UnmarshalJSON" /\ frame[c].pc = "returned"

DisplayEnded(c) ==
    frame[c].op = "ForActionDisplay" /\ frame[c].pc \in {"returned", "panicked"}

OpensAfterSpace(raw, b) ==
    /\ SkipWS(raw, 1) > 1
    /\ SkipWS(raw, 1) <= Len(raw)
    /\ raw[SkipWS(raw, 1)] = b

\* C14: a raw value of white space and then an object gives one element
\* and Count 1, one of white space and then an array gives the array's
\* elements and Count their number; white space in front is never the
\* error of a value that is neither object nor array.
C14_LeadingSpaceIsSkipped ==
    Unmarshalled
    => /\ (OpensAfterSpace(data, 123) \/ OpensAfterSpace(data, 91))
          => err.tag # "assumptions json does not indicate an object or array"
       /\ (OpensAfterSpace(data, 123)
              /\ UnmarshalAssumption(data, ZeroAssumption).ok)
          => err = Nil /\ Len(a.Assumption) = 1 /\ a.Count = 1
       /\ (OpensAfterSpace(data, 91)
              /\ UnmarshalAssumptionSlice(data, <<>>).ok)
          => /\ err = Nil
             /\ Len(a.Assumption) = Len(WireElements(data))
             /\ a.Count = Len(a.Assumption)

\* C14, what the code gives instead: called with such a raw value,
\* UnmarshalJSON returns the error of an unrecognized first byte and leaves
\* the receiver as it was.
C14_LeadingSpaceIsRejected ==
    (Unmarshalled /\ Len(data) > 0 /\ IsWS(data[1]))
    => /\ err.tag = "assumptions json does not indicate an object or array"
       /\ err.arg = <<data[1]>>
       /\ a = ZeroAssumptions

\* C14, inside a document: the decoder of the document skips the white
\* space before it hands the value over, and the array is decoded.
C14_SpaceInsideDocument ==
    (/\ QueryReturned /\ err.cause # "read"
     /\ resp = RootDoc(<<Member(T(<<"Q","u","e","r","y">>), Quote(T(<<"z","z">>))),
                         Member(kAssumptions,
                                T(<<" ">>) \o Arr(<<ObjCount, ObjCount>>))>>))
    => /\ err = Nil
       /\ result.val.Assumptions.Count = 2

(***************************************************************************)
(* One pass over the template                                              *)
(***************************************************************************)
\* The template read once from left to right: the text up to the next
\* start tag, what the name up to the end tag stands for, and so on with
\* the text behind the end tag.  What was written is not read again.
RECURSIVE RenderOnce(_, _, _)

RenderClose(rest, m, asm, i) ==
    KnownValue(SubSeq(rest, 1, m - 1), asm, i)
        \o RenderOnce(SubSeq(rest, m + Len(EndTag), Len(rest)), asm, i)

RenderFrom(s, n, asm, i) ==
    IF n = 0 THEN s
    ELSE SubSeq(s, 1, n - 1)
            \o RenderClose(SubSeq(s, n + Len(StartTag), Len(s)),
                           IndexFrom(SubSeq(s, n + Len(StartTag), Len(s)),
                                     EndTag, 1),
                           asm, i)

RenderOnce(s, asm, i) == RenderFrom(s, IndexFrom(s, StartTag, 1), asm, i)

\* C15: each Label of a list returned is the Template read once from left
\* to right: a value put in place of a placeholder stands in the Label as
\* it is, placeholder text inside it included, and every occurrence of a
\* name is replaced by the same value.
C15_OnePassNoReexpansion ==
    (Displayed /\ pc = "returned" /\ ~result.isNil)
    => \A i \in 1..Len(result.val) :
          result.val[i].Label = RenderOnce(assumption.Template, assumption, i)

\* "${word}${word}" with the Word "${desc2}": the Label is the Word twice,
\* as it is.
C15_Witness ==
    /\ Displayed /\ pc = "returned" /\ ~result.isNil
    /\ assumption.Template = tWord \o tWord
    /\ assumption.Word = tDesc2
    /\ Len(result.val) >= 1
    /\ result.val[1].Label = tDesc2 \o tDesc2

(***************************************************************************)
(* Properties of GetShortAnswerQuery and GetSpokenAnswerQuery              *)
(***************************************************************************)
tTimeoutParam == T(<<"&","t","i","m","e","o","u","t","=">>)

tUnitsImperial == T(<<"&","u","n","i","t","s","=","i","m","p","e","r","i","a","l","&">>)

tUnitsMetric == T(<<"&","u","n","i","t","s","=","m","e","t","r","i","c","&">>)

tUnitsParam == T(<<"&","u","n","i","t","s","=">>)

\* The number of places at which sub stands in s.
Occurrences(s, sub) ==
    Cardinality({i \in 1..(Len(s) - Len(sub) + 1) :
                    \A k \in 1..Len(sub) : s[i + k - 1] = sub[k]})

\* C16: the request carries timeout=<n> exactly when the timeout is not 0,
\* n its decimal value; it carries units=imperial for Imperial and
\* units=metric for Metric; the two operations build the same query string
\* for the same arguments and differ in the path; and a call whose body was
\* read returns the body's bytes as they are, with no error.
C16_AnswerRequestAndResult ==
    op \in AnswerOps
    => /\ Contains(url.raw, tTimeoutParam) <=> args.timeout # 0
       /\ args.timeout # 0
          => /\ Contains(url.raw,
                         tTimeoutParam \o Itoa(args.timeout) \o T(<<"&">>))
             /\ Occurrences(url.raw, tTimeoutParam) = 1
       /\ Occurrences(url.raw, tUnitsParam) = 1
       /\ args.units = Imperial => Contains(url.raw, tUnitsImperial)
       /\ args.units = Metric => Contains(url.raw, tUnitsMetric)
       /\ url.base = IF op = "GetShortAnswerQuery"
                     THEN "https://api.wolframalpha.com/v1/result"
                     ELSE "https://api.wolframalpha.com/v1/spoken"
       /\ url.raw = GetShortAnswerQueryUrl(args.query, args.units,
                                           args.timeout).raw
       /\ url.raw = GetSpokenAnswerQueryUrl(args.query, args.units,
                                            args.timeout).raw
       /\ (pc = "returned" /\ err = Nil) => result = Some(resp)
       /\ (pc = "returned" /\ err # Nil)
          => result = Some(<<>>) /\ err \in {TransportError, ReadError}

\* A spoken answer asked for in metric units with the timeout -1: the
\* request carries both, and the body "42" came back as it is.
C16_Witness ==
    /\ op = "GetSpokenAnswerQuery" /\ pc = "returned" /\ err = Nil
    /\ args.units = Metric /\ args.timeout = 0 - 1
    /\ args.query = T(<<"a"," ","b">>)
    /\ url.raw = T(<<"a","p","p","i","d","=","D","E","M","O","&","i","=",
                     "a","+","b","&","u","n","i","t","s","=","m","e","t",
                     "r","i","c","&","t","i","m","e","o","u","t","=","-",
                     "1","&","o","u","t","p","u","t","=","j","s","o","n">>)
    /\ result.val = T(<<"4","2">>)

(***************************************************************************)
(* The response body                                                       *)
(***************************************************************************)
NetworkOps ==
    {"GetQueryResult", "GetSimpleQuery", "GetFastQueryRecognizer"}
        \cup AnswerOps

\* C17: when a network operation has ended, the response body is closed,
\* unless the operation is GetSimpleQuery and returned it, open, to the
\* caller together with the URL.
C17_BodyClosedOrHandedOver ==
    (op \in NetworkOps /\ pc \in {"returned", "panicked"})
    => \/ ~open
       \/ op = "GetSimpleQuery" /\ err = Nil /\ result = Some(url)

\* C17, what the code gives instead: GetQueryResult leaves the body of
\* every response it obtained open, on success and on failure alike; the
\* other operations do as the claim says.
C17_GetQueryResultLeavesBodyOpen ==
    (op \in NetworkOps /\ pc \in {"returned", "panicked"})
    => IF op = "GetQueryResult" THEN open <=> err.cause # "transport"
       ELSE IF op = "GetSimpleQuery" THEN open <=> err = Nil
       ELSE ~open

(***************************************************************************)
(* ForActionDisplay ends, and on what                                      *)
(***************************************************************************)
\* C18: with two or more Values and any Template at all the call ends by
\* returning a list or an error; it never panics.
C18_AlwaysReturns ==
    (Displayed /\ Len(assumption.Values) >= 2)
    => /\ pc = "returned"
       /\ ~result.isNil \/ err # Nil

\* C18, the part the code keeps, for a Template in which every start tag
\* has its end tag: the call returns its list.
C18_ReturnsWhenTemplateParses ==
    (/\ Displayed /\ Len(assumption.Values) >= 2
     /\ TemplateReset(assumption.Template).ok)
    => pc = "returned" /\ ~result.isNil /\ err = Nil

\* C18, the part the code keeps, under SpecCallers: no step of a call of
\* ForActionDisplay changes the Assumption it was called on.
C18_InputUntouched ==
    [][\A c \in Callers :
          (frame[c].op = "ForActionDisplay" /\ frame'[c].op = "ForActionDisplay")
          => frame'[c].assumption = frame[c].assumption]_<<vars, cvars>>

====
